---- MODULE Spec2Model ----
(***************************************************************************)
(* Model of the GoReleaser wizard's job orchestrator (JobManager and       *)
(* Workflow, cmd/goreleaser-wizard) and of the configuration lifecycle     *)
(* (domain.SafeProjectConfig, the generate/init commands).                 *)
(***************************************************************************)
EXTENDS FiniteSets, Integers, Naturals, Sequences, TLC

\* ------------------------------------------------------------------------
\* Bounds of the model
\* ------------------------------------------------------------------------
\* number of jobs of a plan built directly on a JobManager
NumJobs == 3
\* largest concurrency limit given to SetMaxJobs
MaxMaxJobs == 2

\* ------------------------------------------------------------------------
\* Program constants
\* ------------------------------------------------------------------------
DefaultMaxJobs == 3

VARIABLES
    jobs,       \* jm.jobs: the plan, a sequence of job kinds
    parallel,   \* jm.parallel
    maxJobs,    \* jm.maxJobs
    env,        \* what the jobs see: job configuration and the host
    fs,         \* the working directory
    fs0,        \* the working directory before the plan started
    ctxDone,    \* timeoutCtx of Workflow.Execute is cancelled
    wpc,        \* position of Workflow.Execute
    next,       \* loop index of executeSequential / executeParallel
    jst,        \* per job: position of its executeJob call
    sem,        \* number of elements in the semaphore channel
    results,    \* jm.results
    errChan,    \* errChan of executeParallel
    execErr,    \* error returned by ExecuteJobs
    failed,     \* the slice of GetFailedResults in RollbackFailedJobs
    rbi,        \* loop index of RollbackFailedJobs
    rbCalls,    \* jobs on which Rollback was invoked, in call order
    rbRes,      \* the error each of these Rollback calls returned
    rbErr,      \* error returned by RollbackFailedJobs
    started,    \* jobs whose Execute was entered, in order
    jerr,       \* per job: the error its Execute returned
    ctxAtRb,    \* ctxDone when RollbackFailedJobs was entered
    cancelled,  \* the deadline passed or the caller cancelled
    cfg,        \* a domain.SafeProjectConfig
    cpc,        \* position of the command working on cfg
    entry,      \* which entry point uses cfg
    lastErr,    \* error returned by the last operation on cfg
    lastFrom,   \* State of cfg before the last operation on it
    lastTo,     \* State asked for by the last TransitionToState
    genStart,   \* State of cfg when generateConfigurationFiles was entered
    cfs,        \* artifacts written by generateConfigurationFiles
    lastValidation, \* State and error of the last validateStateTransitionInvariant
    spc,        \* a domain.SafeProjectConfig with all its fields
    spc0,       \* spc as the caller built it
    applied,    \* number of ApplyDefaults calls made on spc
    spcOnce,    \* spc after the first ApplyDefaults
    other,      \* a second configuration, made by Clone and edited
    lastEquals, \* receiver, argument and result of the last Equals
    valResult   \* configuration and ValidationResult of the last ValidateConfiguration

orchVars == <<jobs, parallel, maxJobs, env, fs, fs0, ctxDone, wpc, next, jst,
              sem, results, errChan, execErr, failed, rbi, rbCalls, rbRes,
              rbErr, started, jerr, ctxAtRb, cancelled>>
cfgVars == <<cfg, cpc, entry, lastErr, lastFrom, lastTo, genStart, cfs,
             lastValidation>>
domVars == <<spc, spc0, applied, spcOnce, other, lastEquals, valResult>>
vars == <<orchVars, cfgVars, domVars>>

\* ------------------------------------------------------------------------
\* Small helpers
\* ------------------------------------------------------------------------
Range(s) == {s[i] : i \in 1..Len(s)}

RECURSIVE SelectIdx(_, _, _)
\* the job indices of the results of s from position k on whose status is st
SelectIdx(s, st, k) ==
    IF k > Len(s) THEN <<>>
    ELSE IF s[k].status = st
         THEN <<s[k].job>> \o SelectIdx(s, st, k + 1)
         ELSE SelectIdx(s, st, k + 1)

\* ------------------------------------------------------------------------
\* The jobs (Job.Execute / Job.Rollback of each job type)
\* ------------------------------------------------------------------------
JobKinds == {"project-validation", "dependency-check", "config-generation",
             "github-actions-generation", "backup-config",
             "validate-migration", "migrate-config"}

\* generateGoReleaserConfig(*ProjectConfig) error: writes .goreleaser.yaml,
\* keeping the file it overwrites as .goreleaser.yaml.backup; or fails
generateGoReleaserConfig(f) ==
    { [err |-> "nil",
       fs |-> [f EXCEPT !.manifest = "gen",
                        !.backup = IF f.manifest # "none" THEN f.manifest
                                   ELSE f.backup]],
      [err |-> "fail", fs |-> f] }

\* generateGitHubActions(*ProjectConfig) error: writes
\* .github/workflows/release.yml; or fails
generateGitHubActions(f) ==
    { [err |-> "nil", fs |-> [f EXCEPT !.workflow = "gen"]],
      [err |-> "fail", fs |-> f] }

ProjectValidationJobExecute(i, done, f) ==
    IF done THEN {[err |-> "ctx", fs |-> f]}
    ELSE IF ~env.projOK[i] THEN {[err |-> "fail", fs |-> f]}
    ELSE {[err |-> "nil", fs |-> f]}

\* the missingDeps of DependencyCheckJob.Execute: the dependencies that
\* exec.LookPath does not find
missingDeps(dependencies, missing) ==
    SelectSeq(dependencies, LAMBDA dep : dep \in missing)

DependencyCheckJobExecute(done, f) ==
    IF done THEN {[err |-> "ctx", fs |-> f]}
    ELSE IF Len(missingDeps(env.dependencies, env.missing)) > 0
    THEN {[err |-> "fail", fs |-> f]}
    ELSE {[err |-> "nil", fs |-> f]}

ConfigGenerationJobExecute(done, f) ==
    IF done THEN {[err |-> "ctx", fs |-> f]}
    ELSE IF env.ProjectName = "" THEN {[err |-> "fail", fs |-> f]}
    ELSE IF ~env.force /\ f.manifest # "none" THEN {[err |-> "fail", fs |-> f]}
    ELSE generateGoReleaserConfig(f)

GitHubActionsGenerationJobExecute(done, f) ==
    IF done THEN {[err |-> "ctx", fs |-> f]}
    ELSE IF ~env.GenerateActions THEN {[err |-> "nil", fs |-> f]}
    ELSE \* os.MkdirAll(".github/workflows") fails (it cannot when the
         \* directory is there), or succeeds and the workflow is generated
         (IF f.wfDir THEN {} ELSE {[err |-> "fail", fs |-> f]}) \cup
         generateGitHubActions([f EXCEPT !.ghDir = TRUE, !.wfDir = TRUE])

\* ConfigBackupJob.Execute: os.Rename of .goreleaser.yaml to
\* .goreleaser.yaml.backup.<timestamp>, the name after all the backups there
ConfigBackupJobExecute(f) ==
    IF f.manifest = "none" THEN {[err |-> "nil", fs |-> f]}
    ELSE { [err |-> "nil",
            fs |-> [f EXCEPT !.manifest = "none",
                             !.backups = Append(f.backups, f.manifest)]],
           [err |-> "fail", fs |-> f] }

MigrationValidationJobExecute(f) ==
    IF env.sameVersion THEN {[err |-> "fail", fs |-> f]}
    ELSE {[err |-> "nil", fs |-> f]}

ConfigMigrationJobExecute(f) == generateGoReleaserConfig(f)

\* Job.Execute of job i of the plan: the possible (error, directory) pairs
Execute(i, done, f) ==
    CASE jobs[i] = "project-validation" -> ProjectValidationJobExecute(i, done, f)
      [] jobs[i] = "dependency-check" -> DependencyCheckJobExecute(done, f)
      [] jobs[i] = "config-generation" -> ConfigGenerationJobExecute(done, f)
      [] jobs[i] = "github-actions-generation" ->
             GitHubActionsGenerationJobExecute(done, f)
      [] jobs[i] = "backup-config" -> ConfigBackupJobExecute(f)
      [] jobs[i] = "validate-migration" -> MigrationValidationJobExecute(f)
      [] jobs[i] = "migrate-config" -> ConfigMigrationJobExecute(f)

ConfigGenerationJobRollback(done, f) ==
    IF done THEN {[err |-> "ctx", fs |-> f]}
    ELSE IF f.manifest # "none"
    THEN IF f.backup # "none"
         THEN \* os.Rename(".goreleaser.yaml.backup", ".goreleaser.yaml")
              { [err |-> "nil",
                 fs |-> [f EXCEPT !.manifest = f.backup, !.backup = "none"]],
                [err |-> "fail", fs |-> f] }
         ELSE \* os.Remove(".goreleaser.yaml")
              { [err |-> "nil", fs |-> [f EXCEPT !.manifest = "none"]],
                [err |-> "fail", fs |-> f] }
    ELSE {[err |-> "nil", fs |-> f]}

\* os.Remove of a directory: it goes away only when it is empty
RemoveWorkflowDir(f) ==
    IF f.wfDir /\ f.workflow = "none" /\ f.wfOther = "none"
    THEN [f EXCEPT !.wfDir = FALSE] ELSE f

RemoveGitHubDir(f) ==
    IF f.ghDir /\ ~f.wfDir /\ ~f.ghOther
    THEN [f EXCEPT !.ghDir = FALSE] ELSE f

\* the tail of GitHubActionsGenerationJob.Rollback: with no *.yml left in
\* .github/workflows, os.Remove(workflowDir) and os.Remove(".github")
RemoveEmptyDirs(f) ==
    IF f.workflow = "none" /\ f.wfOther # "yml"
    THEN RemoveGitHubDir(RemoveWorkflowDir(f))
    ELSE f

GitHubActionsGenerationJobRollback(done, f) ==
    IF done THEN {[err |-> "ctx", fs |-> f]}
    ELSE IF f.workflow # "none"
    THEN { [err |-> "nil",
            fs |-> RemoveEmptyDirs([f EXCEPT !.workflow = "none"])],
           [err |-> "fail", fs |-> f] }
    ELSE {[err |-> "nil", fs |-> RemoveEmptyDirs(f)]}

\* ConfigMigrationJob.Rollback: the last of .goreleaser.yaml.backup.* is
\* renamed to .goreleaser.yaml
ConfigMigrationJobRollback(f) ==
    IF f.backups = <<>> THEN {[err |-> "fail", fs |-> f]}
    ELSE { [err |-> "nil",
            fs |-> [f EXCEPT !.manifest = f.backups[Len(f.backups)],
                             !.backups = SubSeq(f.backups, 1,
                                                Len(f.backups) - 1)]],
           [err |-> "fail", fs |-> f] }

\* Job.Rollback of job i of the plan
Rollback(i, done, f) ==
    CASE jobs[i] = "config-generation" -> ConfigGenerationJobRollback(done, f)
      [] jobs[i] = "github-actions-generation" ->
             GitHubActionsGenerationJobRollback(done, f)
      [] jobs[i] = "migrate-config" -> ConfigMigrationJobRollback(f)
      [] OTHER -> {[err |-> "nil", fs |-> f]}

\* ------------------------------------------------------------------------
\* Plans
\* ------------------------------------------------------------------------
\* a factory that puts the generation of the manifest first
CreateFullWizardJobs_GenerateFirst(genActions) ==
    <<"config-generation", "project-validation", "dependency-check">> \o
    (IF genActions THEN <<"github-actions-generation">> ELSE <<>>)

\* JobFactory.CreateFullWizardJobs: the dependencies of the dependency check
WizardDependencies(dockerEnabled, signing) ==
    <<"go">> \o (IF dockerEnabled THEN <<"docker">> ELSE <<>>)
             \o (IF signing THEN <<"cosign">> ELSE <<>>)

\* JobFactory.CreateFullWizardJobs
CreateFullWizardJobs(genActions) ==
    <<"project-validation", "dependency-check", "config-generation">> \o
    (IF genActions THEN <<"github-actions-generation">> ELSE <<>>)

FileStates == {"none", "orig"}

\* the working directories a plan can start in
InitialDirs ==
    { [manifest |-> m, backup |-> b, workflow |-> w, ghDir |-> g, wfDir |-> d,
       wfOther |-> wo, ghOther |-> go, backups |-> <<>>] :
        m \in FileStates, b \in FileStates, w \in FileStates,
        g \in BOOLEAN, d \in BOOLEAN,
        wo \in {"none", "yml", "other"}, go \in BOOLEAN }

WellFormedDir(f) ==
    /\ f.wfDir => f.ghDir
    /\ f.workflow # "none" => f.wfDir
    /\ f.wfOther # "none" => f.wfDir
    /\ f.ghOther => f.ghDir

\* ------------------------------------------------------------------------
\* Workflow.Execute and the JobManager
\* ------------------------------------------------------------------------
JobIds == 1..Len(jobs)

NoEnv == [ProjectName |-> "web", force |-> FALSE, GenerateActions |-> FALSE,
          depsOK |-> TRUE, projOK |-> [i \in 1..NumJobs |-> TRUE],
          dependencies |-> <<"go">>, missing |-> {}, sameVersion |-> FALSE]

\* the feature switches of a ProjectConfig and the tools absent from PATH
ModelFeatures == {<<FALSE, FALSE>>, <<TRUE, FALSE>>, <<FALSE, TRUE>>}
ModelMissing == {{}, {"go"}, {"docker"}, {"cosign"}}

EmptyDir == [manifest |-> "none", backup |-> "none", workflow |-> "none",
             ghDir |-> FALSE, wfDir |-> FALSE, wfOther |-> "none",
             ghOther |-> FALSE, backups |-> <<>>]

\* WorkflowBuilder.BuildWorkflow(WorkflowTypeFullWizard, config, force)
BuildWorkflow ==
    \E ga \in BOOLEAN, fo \in BOOLEAN, nm \in {"", "web"},
       po \in BOOLEAN, ft \in ModelFeatures, ms \in ModelMissing,
       f \in InitialDirs :
        /\ WellFormedDir(f)
        /\ jobs = CreateFullWizardJobs(ga)
        /\ parallel = FALSE
        /\ maxJobs = 1
        /\ env = [ProjectName |-> nm, force |-> fo, GenerateActions |-> ga,
                  dependencies |-> WizardDependencies(ft[1], ft[2]),
                  missing |-> ms, sameVersion |-> FALSE,
                  depsOK |-> missingDeps(WizardDependencies(ft[1], ft[2]),
                                         ms) = <<>>,
                  projOK |-> [i \in 1..NumJobs |-> IF i = 1 THEN po ELSE TRUE]]
        /\ fs = f

\* the plans given to a JobManager with AddJob: NumJobs project validation
\* jobs, or the two generation jobs followed by project validation jobs
ManagerPlans ==
    { [i \in 1..NumJobs |-> "project-validation"],
      [i \in 1..NumJobs |-> IF i = 1 THEN "config-generation"
                            ELSE IF i = 2 THEN "github-actions-generation"
                            ELSE "project-validation"] }

\* a Workflow whose JobManager got NumJobs jobs and
\* Workflow.SetParallel(parallel, maxJobs) (NewJobManager: sequential, 3)
BuildManagerPlan ==
    \E pl \in ManagerPlans, par \in BOOLEAN, mj \in (-1)..MaxMaxJobs,
       po \in [1..NumJobs -> BOOLEAN], m \in FileStates :
        /\ jobs = pl
        /\ parallel = par
        /\ maxJobs = IF par THEN mj ELSE DefaultMaxJobs
        /\ \A i \in 1..NumJobs : pl[i] # "project-validation" => po[i]
        /\ m # "none" => pl[1] = "config-generation"
        /\ env = [NoEnv EXCEPT !.projOK = po,
                               !.GenerateActions = pl[2] # "project-validation"]
        /\ fs = [EmptyDir EXCEPT !.manifest = m]

\* WorkflowBuilder.createMigrationJobs
createMigrationJobs == <<"backup-config", "validate-migration", "migrate-config">>

\* WorkflowBuilder.BuildMigrateWorkflow(fromVersion, toVersion, config), in a
\* directory with or without a manifest and an older timestamped backup
BuildMigrateWorkflow ==
    \E sv \in BOOLEAN, m \in FileStates, old \in {<<>>, <<"old">>} :
        /\ jobs = createMigrationJobs
        /\ parallel = FALSE
        /\ maxJobs = 1
        /\ env = [NoEnv EXCEPT !.sameVersion = sv]
        /\ fs = [EmptyDir EXCEPT !.manifest = m, !.backups = old]

\* no configuration of the domain package is being worked on
DomIdle ==
    /\ spc = "none" /\ spc0 = "none" /\ spcOnce = "none" /\ other = "none"
    /\ applied = 0
    /\ lastEquals = "none"
    /\ valResult = "none"

CfgIdle ==
    /\ cfg = [State |-> "draft", ProjectName |-> "web", GenerateActions |-> FALSE,
              Platforms |-> <<"linux">>, Architectures |-> <<"amd64">>]
    /\ cpc = "idle"
    /\ entry = "none"
    /\ lastErr = "none"
    /\ lastFrom = "draft"
    /\ lastTo = "draft"
    /\ genStart = "none"
    /\ cfs = [manifest |-> "none", workflow |-> "none", force |-> FALSE,
              backup |-> "none"]
    /\ lastValidation = [State |-> "none", err |-> "none"]

Init ==
    /\ BuildWorkflow \/ BuildManagerPlan \/ BuildMigrateWorkflow
    /\ fs0 = fs
    /\ ctxDone = FALSE
    /\ wpc = "execute"
    /\ next = 1
    /\ jst = [i \in JobIds |-> "pending"]
    /\ jerr = [i \in JobIds |-> "none"]
    /\ sem = 0
    /\ results = <<>>
    /\ errChan = <<>>
    /\ execErr = "none"
    /\ failed = <<>>
    /\ rbi = 0
    /\ rbCalls = <<>>
    /\ rbRes = <<>>
    /\ rbErr = "none"
    /\ started = <<>>
    /\ ctxAtRb = FALSE
    /\ cancelled = FALSE
    /\ CfgIdle
    /\ DomIdle

\* an addResult that forgets the result
addResult_Dropped(rs, result) == rs

\* an addResult without the mutex: the append of a concurrent caller is lost
addResult_Unlocked(rs, result) ==
    IF rs = <<>> THEN <<result>> ELSE [rs EXCEPT ![Len(rs)] = result]

\* JobManager.addResult: jm.results = append(jm.results, result), under jm.mu
addResult(rs, result) == Append(rs, result)

\* an executeJob with the test of err turned around
StatusOf_Inverted(err) == IF err = "nil" THEN "failed" ELSE "completed"

\* the status executeJob gives a result (job_manager.go:185-188)
StatusOf(err) == IF err # "nil" THEN "failed" ELSE "completed"

\* an executeSequential that goes on after a failed job
SeqContinues_Always(status) == TRUE

\* executeSequential goes on with the next job (job_manager.go:121)
SeqContinues(status) == status # "failed"

\* a semaphore that admits one sender too many
SemaphoreHasRoom_OffByOne(n, capacity) == n <= capacity

\* a send on the semaphore channel does not block (job_manager.go:147)
SemaphoreHasRoom(n, capacity) == n < capacity

\* the timeout context is cancelled: the deadline passed or the caller
\* cancelled the parent context
CtxCancel ==
    /\ wpc \in {"execute", "rollback", "sweep", "rollingback"}
    /\ ~ctxDone
    /\ ctxDone' = TRUE
    /\ cancelled' = TRUE
    /\ UNCHANGED <<jobs, parallel, maxJobs, env, fs, fs0, wpc, next, jst, sem,
                   results, errChan, execErr, failed, rbi, rbCalls, rbRes, rbErr,
                   started, jerr, ctxAtRb, cfgVars, domVars>>

\* executeSequential: head of the loop body, up to the call of job.Execute
SeqBegin ==
    /\ wpc = "execute" /\ ~parallel
    /\ next <= Len(jobs) /\ jst[next] = "pending"
    /\ IF ctxDone
       THEN /\ execErr' = "ctx"
            /\ wpc' = "rollback"
            /\ UNCHANGED <<jst, started>>
       ELSE /\ jst' = [jst EXCEPT ![next] = "running"]
            /\ started' = Append(started, next)
            /\ UNCHANGED <<execErr, wpc>>
    /\ UNCHANGED <<jobs, parallel, maxJobs, env, fs, fs0, ctxDone, next, sem,
                   results, errChan, failed, rbi, rbCalls, rbRes, rbErr, jerr,
                   ctxAtRb, cancelled, cfgVars, domVars>>

\* executeJob: job.Execute(ctx) runs and returns
JobExecute(i) ==
    /\ jst[i] = "running"
    /\ \E o \in Execute(i, ctxDone, fs) :
        /\ fs' = o.fs
        /\ jerr' = [jerr EXCEPT ![i] = o.err]
    /\ jst' = [jst EXCEPT ![i] = "returned"]
    /\ UNCHANGED <<jobs, parallel, maxJobs, env, fs0, ctxDone, wpc, next, sem,
                   results, errChan, execErr, failed, rbi, rbCalls, rbRes, rbErr,
                   started, ctxAtRb, cancelled, cfgVars, domVars>>

\* executeSequential: addResult and the test of the result's status
SeqRecord ==
    /\ wpc = "execute" /\ ~parallel
    /\ next <= Len(jobs) /\ jst[next] = "returned"
    /\ results' = addResult(results, [job |-> next,
                                      status |-> StatusOf(jerr[next]),
                                      err |-> jerr[next]])
    /\ jst' = [jst EXCEPT ![next] = "finished"]
    /\ IF SeqContinues(StatusOf(jerr[next]))
       THEN /\ next' = next + 1
            /\ UNCHANGED <<execErr, wpc>>
       ELSE /\ execErr' = "job"
            /\ wpc' = "rollback"
            /\ UNCHANGED next
    /\ UNCHANGED <<jobs, parallel, maxJobs, env, fs, fs0, ctxDone, sem, errChan,
                   failed, rbi, rbCalls, rbRes, rbErr, started, jerr, ctxAtRb,
                   cancelled, cfgVars, domVars>>

\* executeSequential: the loop is over, return nil; Workflow.Execute returns
\* nil and its deferred cancel runs
SeqReturn ==
    /\ wpc = "execute" /\ ~parallel
    /\ next > Len(jobs)
    /\ wpc' = "done"
    /\ ctxDone' = TRUE
    /\ UNCHANGED <<jobs, parallel, maxJobs, env, fs, fs0, next, jst, sem,
                   results, errChan, execErr, failed, rbi, rbCalls, rbRes, rbErr,
                   started, jerr, ctxAtRb, cancelled, cfgVars, domVars>>

\* executeParallel: make(chan struct{}, jm.maxJobs) with a negative size
ParPanic ==
    /\ wpc = "execute" /\ parallel
    /\ maxJobs < 0
    /\ wpc' = "panic"
    /\ UNCHANGED <<jobs, parallel, maxJobs, env, fs, fs0, ctxDone, next, jst,
                   sem, results, errChan, execErr, failed, rbi, rbCalls, rbRes, rbErr,
                   started, jerr, ctxAtRb, cancelled, cfgVars, domVars>>

\* executeParallel: one round of the loop that starts the goroutines
ParSpawn ==
    /\ wpc = "execute" /\ parallel
    /\ maxJobs >= 0
    /\ next <= Len(jobs)
    /\ IF ctxDone
       THEN /\ execErr' = "ctx"
            /\ wpc' = "rollback"
            /\ UNCHANGED <<jst, next>>
       ELSE /\ jst' = [jst EXCEPT ![next] = "waiting"]
            /\ next' = next + 1
            /\ UNCHANGED <<execErr, wpc>>
    /\ UNCHANGED <<jobs, parallel, maxJobs, env, fs, fs0, ctxDone, sem, results,
                   errChan, failed, rbi, rbCalls, rbRes, rbErr, started, jerr,
                   ctxAtRb, cancelled, cfgVars, domVars>>

\* goroutine of job i: semaphore <- struct{}{} and the entry of executeJob
GoAcquire(i) ==
    /\ parallel
    /\ jst[i] = "waiting"
    /\ SemaphoreHasRoom(sem, maxJobs)
    /\ sem' = sem + 1
    /\ jst' = [jst EXCEPT ![i] = "running"]
    /\ started' = Append(started, i)
    /\ UNCHANGED <<jobs, parallel, maxJobs, env, fs, fs0, ctxDone, wpc, next,
                   results, errChan, execErr, failed, rbi, rbCalls, rbRes, rbErr,
                   jerr, ctxAtRb, cancelled, cfgVars, domVars>>

\* goroutine of job i: addResult, the send on errChan, and the deferred
\* release of the semaphore and wg.Done
GoRecord(i) ==
    /\ parallel
    /\ jst[i] = "returned"
    /\ results' = addResult(results, [job |-> i, status |-> StatusOf(jerr[i]),
                                      err |-> jerr[i]])
    /\ errChan' = IF StatusOf(jerr[i]) = "failed" THEN Append(errChan, i)
                  ELSE errChan
    /\ sem' = sem - 1
    /\ jst' = [jst EXCEPT ![i] = "finished"]
    /\ UNCHANGED <<jobs, parallel, maxJobs, env, fs, fs0, ctxDone, wpc, next,
                   execErr, failed, rbi, rbCalls, rbRes, rbErr, started, jerr,
                   ctxAtRb, cancelled, cfgVars, domVars>>

\* executeParallel: wg.Wait returns, errChan is closed and read
ParWait ==
    /\ wpc = "execute" /\ parallel
    /\ maxJobs >= 0
    /\ next > Len(jobs)
    /\ \A i \in JobIds : jst[i] = "finished"
    /\ IF errChan # <<>>
       THEN /\ execErr' = "job"
            /\ wpc' = "rollback"
            /\ UNCHANGED ctxDone
       ELSE /\ wpc' = "done"
            /\ ctxDone' = TRUE
            /\ UNCHANGED execErr
    /\ UNCHANGED <<jobs, parallel, maxJobs, env, fs, fs0, next, jst, sem,
                   results, errChan, failed, rbi, rbCalls, rbRes, rbErr, started,
                   jerr, ctxAtRb, cancelled, cfgVars, domVars>>

\* the ConfigState the caller of Workflow.Execute leaves the configuration
\* in: Generated when the plan succeeded, back to Valid after a rollback
FinalConfigState == IF execErr = "none" THEN "generated" ELSE "valid"

\* JobManager.GetFailedResults
GetFailedResults == SelectIdx(results, "failed", 1)

RECURSIVE CountStatus(_, _)
\* the number of results of s whose status is st
CountStatus(s, st) ==
    IF s = <<>> THEN 0
    ELSE (IF Head(s).status = st THEN 1 ELSE 0) + CountStatus(Tail(s), st)

\* JobManager.GetStatistics: the counts it reports
GetStatistics ==
    [total_jobs |-> Len(jobs),
     total_results |-> Len(results),
     completed |-> CountStatus(results, "completed"),
     failed |-> CountStatus(results, "failed")]

\* JobManager.GetResults: a copy of jm.results
GetResults == results

\* RollbackFailedJobs: failed := jm.GetFailedResults()
RbBegin ==
    /\ wpc = "rollback"
    /\ failed' = GetFailedResults
    /\ rbi' = Len(GetFailedResults)
    /\ ctxAtRb' = ctxDone
    /\ wpc' = "sweep"
    /\ UNCHANGED <<jobs, parallel, maxJobs, env, fs, fs0, ctxDone, next, jst,
                   sem, results, errChan, execErr, rbCalls, rbRes, rbErr, started,
                   jerr, cancelled, cfgVars, domVars>>

\* RollbackFailedJobs: the loop test and the select on ctx.Done() of a round;
\* when the function returns, Workflow.Execute returns with its deferred cancel
RbCheck ==
    /\ wpc = "sweep"
    /\ IF rbi = 0
       THEN /\ wpc' = "done"
            /\ ctxDone' = TRUE
            /\ UNCHANGED rbErr
       ELSE IF ctxDone
       THEN /\ rbErr' = "ctx"
            /\ wpc' = "done"
            /\ UNCHANGED ctxDone
       ELSE /\ wpc' = "rollingback"
            /\ UNCHANGED <<rbErr, ctxDone>>
    /\ UNCHANGED <<jobs, parallel, maxJobs, env, fs, fs0, next, jst, sem,
                   results, errChan, execErr, failed, rbi, rbCalls, rbRes, started,
                   jerr, ctxAtRb, cancelled, cfgVars, domVars>>

\* a sweep that gives up at the first Rollback that returns an error
SweepContinues_OnlyOnSuccess(err) == err = "nil"

\* RollbackFailedJobs goes on with the next round after a Rollback
\* (job_manager.go:278-284): its error is logged only
SweepContinues(err) == TRUE

\* RollbackFailedJobs: result.Job.Rollback(ctx) of a round
RbCall ==
    /\ wpc = "rollingback"
    /\ \E o \in Rollback(failed[rbi], ctxDone, fs) :
        /\ fs' = o.fs
        /\ rbRes' = Append(rbRes, o.err)
        /\ IF SweepContinues(o.err)
           THEN /\ rbi' = rbi - 1
                /\ wpc' = "sweep"
                /\ UNCHANGED <<rbErr, ctxDone>>
           ELSE /\ rbErr' = "rollback"
                /\ wpc' = "done"
                /\ ctxDone' = TRUE
                /\ UNCHANGED rbi
    /\ rbCalls' = Append(rbCalls, failed[rbi])
    /\ UNCHANGED <<jobs, parallel, maxJobs, env, fs0, next, jst, sem,
                   results, errChan, execErr, failed, started, jerr,
                   ctxAtRb, cancelled, cfgVars, domVars>>

Next ==
    \/ CtxCancel
    \/ SeqBegin
    \/ \E i \in JobIds : JobExecute(i)
    \/ SeqRecord
    \/ SeqReturn
    \/ ParPanic
    \/ ParSpawn
    \/ \E i \in JobIds : GoAcquire(i)
    \/ \E i \in JobIds : GoRecord(i)
    \/ ParWait
    \/ RbBegin
    \/ RbCheck
    \/ RbCall

Spec == Init /\ [][Next]_vars

\* the longest plan: the full wizard with the workflow job
MaxPlanLen == IF NumJobs > 4 THEN NumJobs ELSE 4

\* the Go scheduler runs every goroutine that can take a step, and every
\* Execute and Rollback returns; nothing obliges the context to be cancelled
Fairness ==
    /\ WF_vars(SeqBegin) /\ WF_vars(SeqRecord) /\ WF_vars(SeqReturn)
    /\ WF_vars(ParPanic) /\ WF_vars(ParSpawn) /\ WF_vars(ParWait)
    /\ WF_vars(RbBegin) /\ WF_vars(RbCheck) /\ WF_vars(RbCall)
    /\ \A i \in 1..MaxPlanLen :
        /\ WF_vars(i \in JobIds /\ JobExecute(i))
        /\ WF_vars(i \in JobIds /\ GoAcquire(i))
        /\ WF_vars(i \in JobIds /\ GoRecord(i))

SpecLive == Init /\ [][Next]_vars /\ Fairness

TypeOK ==
    /\ wpc \in {"execute", "rollback", "sweep", "rollingback", "done", "panic"}
    /\ sem \in 0..Len(jobs)
    /\ \A i \in JobIds : jst[i] \in {"pending", "waiting", "running",
                                     "returned", "finished"}

\* ------------------------------------------------------------------------
\* The configuration lifecycle (domain.ConfigState, SafeProjectConfig)
\* ------------------------------------------------------------------------
\* GetAllConfigStates
ConfigStates == {"draft", "valid", "invalid", "processing", "generated"}

\* allowedTransitions of ConfigState.AllowsTransitionTo
allowedTransitions(cs) ==
    CASE cs = "draft" -> <<"valid", "invalid">>
      [] cs = "valid" -> <<"invalid", "processing">>
      [] cs = "invalid" -> <<"valid", "processing">>
      [] cs = "processing" -> <<"valid", "invalid", "generated">>
      [] cs = "generated" -> <<>>
      [] OTHER -> <<>>

\* a transition table that lets a Draft configuration go to Processing
AllowsTransitionTo_DraftProcessing(cs, newState) ==
    \/ \E k \in 1..Len(allowedTransitions(cs)) :
           allowedTransitions(cs)[k] = newState
    \/ (cs = "draft" /\ newState = "processing")

\* a transition table that lets a Generated configuration go back to Valid
AllowsTransitionTo_GeneratedValid(cs, newState) ==
    \/ \E k \in 1..Len(allowedTransitions(cs)) :
           allowedTransitions(cs)[k] = newState
    \/ (cs = "generated" /\ newState = "valid")

\* ConfigState.AllowsTransitionTo
AllowsTransitionTo(cs, newState) ==
    \E k \in 1..Len(allowedTransitions(cs)) : allowedTransitions(cs)[k] = newState

\* configStateMetaMap[cs].allowsGeneration, ConfigState.AllowsGeneration
AllowsGeneration(cs) ==
    CASE cs = "draft" -> FALSE
      [] cs = "valid" -> TRUE
      [] cs = "invalid" -> FALSE
      [] cs = "processing" -> FALSE
      [] cs = "generated" -> FALSE
      [] OTHER -> FALSE

\* configStateMetaMap[cs].allowsValidation, ConfigState.AllowsValidation
AllowsValidation(cs) ==
    CASE cs = "draft" -> TRUE
      [] cs = "valid" -> TRUE
      [] cs = "invalid" -> TRUE
      [] cs = "processing" -> FALSE
      [] cs = "generated" -> TRUE
      [] OTHER -> FALSE

\* SafeProjectConfig.validateStateTransitionInvariant
validateStateTransitionInvariant(c) ==
    IF ~AllowsValidation(c.State)
    THEN "configuration cannot be validated"
    ELSE IF ~AllowsGeneration(c.State) /\ c.GenerateActions
    THEN "configuration cannot generate actions"
    ELSE "nil"

\* platformMetadata[p].architectures, Platform.Architectures
PlatformArchitectures(p) ==
    CASE p = "linux" -> <<"amd64", "arm64", "arm", "386">>
      [] p = "darwin" -> <<"amd64", "arm64">>
      [] p = "windows" -> <<"amd64", "arm64", "386">>
      [] p = "freebsd" -> <<"amd64", "arm64", "386">>
      [] p = "openbsd" -> <<"amd64", "arm64", "386">>
      [] p = "netbsd" -> <<"amd64", "arm64", "386">>
      [] OTHER -> <<"amd64", "arm64">>

\* ValidatePlatformArchCompatibility: "nil" or the first incompatible pair,
\* platforms in the outer loop
ValidatePlatformArchCompatibility(platforms, architectures) ==
    IF Len(platforms) = 0 \/ Len(architectures) = 0
    THEN [err |-> "both platforms and architectures must be specified"]
    ELSE LET bad == { pa \in (1..Len(platforms)) \X (1..Len(architectures)) :
                        architectures[pa[2]] \notin
                            Range(PlatformArchitectures(platforms[pa[1]])) }
         IN IF bad = {} THEN [err |-> "nil"]
            ELSE LET first == CHOOSE pa \in bad : \A qa \in bad :
                                  \/ pa[1] < qa[1]
                                  \/ (pa[1] = qa[1] /\ pa[2] <= qa[2])
                 IN [err |-> "architecture not supported on platform",
                     platform |-> platforms[first[1]],
                     arch |-> architectures[first[2]]]

\* ValidateProjectName, as far as the names of the model go
ValidateProjectName(name) ==
    IF Len(name) < 1 \/ Len(name) > 63
    THEN "project name must be between 1 and 63 characters" ELSE "nil"

\* SafeProjectConfig.ValidateInvariants over the fields of the model
ValidateInvariants(c) ==
    IF ValidateProjectName(c.ProjectName) # "nil"
    THEN ValidateProjectName(c.ProjectName)
    ELSE IF Len(c.Platforms) = 0 THEN "at least one platform is required"
    ELSE IF Len(c.Architectures) = 0
    THEN "at least one architecture is required"
    ELSE ValidatePlatformArchCompatibility(c.Platforms, c.Architectures).err

\* SafeProjectConfig.TransitionToState
TransitionToState(newState) ==
    /\ entry = "api"
    /\ lastFrom' = cfg.State
    /\ lastTo' = newState
    /\ IF ~AllowsTransitionTo(cfg.State, newState)
       THEN /\ lastErr' = "invalid state transition"
            /\ UNCHANGED cfg
       ELSE /\ cfg' = [cfg EXCEPT !.State = newState]
            /\ lastErr' = "nil"
    /\ UNCHANGED <<cpc, entry, genStart, cfs, lastValidation,
                   orchVars, domVars>>

\* a caller of the domain package has the state gate of ValidateInvariants
\* run on the configuration
CallValidateStateTransitionInvariant ==
    /\ entry = "api"
    /\ lastValidation' = [State |-> cfg.State,
                          err |-> validateStateTransitionInvariant(cfg)]
    /\ UNCHANGED <<cfg, cpc, entry, lastErr, lastFrom, lastTo, genStart, cfs,
                   orchVars, domVars>>

\* a command that goes on to generation whatever validation said
ValidationPassed_Ignored(err) == TRUE

\* runGenerate / runInit go on after validateConfiguration
\* (generate.go:49-52, init.go:120-123)
ValidationPassed(err) == err = "nil"

\* validateConfiguration: config.State = domain.ConfigStateProcessing
ValidateBegin ==
    /\ entry \in {"generate", "init"}
    /\ cpc = "validate"
    /\ lastFrom' = cfg.State
    /\ cfg' = [cfg EXCEPT !.State = "processing"]
    /\ cpc' = "validating"
    /\ UNCHANGED <<entry, lastErr, lastTo, genStart, cfs, lastValidation,
                   orchVars, domVars>>

\* validateConfiguration: ValidateInvariants and the State it leaves, and the
\* caller's test of the error
ValidateEnd ==
    /\ cpc = "validating"
    /\ lastErr' = ValidateInvariants(cfg)
    /\ lastFrom' = cfg.State
    /\ cfg' = [cfg EXCEPT !.State = IF ValidateInvariants(cfg) # "nil"
                                     THEN "invalid" ELSE "valid"]
    /\ cpc' = IF ~ValidationPassed(ValidateInvariants(cfg)) THEN "done"
              ELSE IF entry = "generate" THEN "check" ELSE "generate"
    /\ UNCHANGED <<entry, lastTo, genStart, cfs, lastValidation,
                   orchVars, domVars>>

\* checkExistingFiles of runGenerate
checkExistingFiles ==
    /\ cpc = "check"
    /\ IF \/ (cfs.manifest # "none" /\ ~cfs.force)
          \/ (cfg.GenerateActions /\ cfs.workflow # "none" /\ ~cfs.force)
       THEN /\ cpc' = "done"
            /\ lastErr' = "already exists"
       ELSE /\ cpc' = "generate"
            /\ UNCHANGED lastErr
    /\ UNCHANGED <<cfg, entry, lastFrom, lastTo, genStart, cfs, lastValidation,
                   orchVars, domVars>>

\* writeFile (init.go:696): os.WriteFile on the path, or an error; no other
\* file of the directory is touched
writeFile(d, path) ==
    { [err |-> "nil", cfs |-> [d EXCEPT ![path] = "gen"]],
      [err |-> "write failed", cfs |-> d] }

\* a generateConfigurationFiles that leaves State alone when a write fails
StateOnWriteFailure_Unchanged(cs) == cs

\* generateConfigurationFiles: the State assigned when writeFile fails
\* (generate.go:257, 265; init.go:542, 550)
StateOnWriteFailure(cs) == "invalid"

\* generateConfigurationFiles: config.State = domain.ConfigStateProcessing
GenerateBegin ==
    /\ cpc = "generate"
    /\ genStart' = cfg.State
    /\ lastFrom' = cfg.State
    /\ cfg' = [cfg EXCEPT !.State = "processing"]
    /\ cpc' = "manifest"
    /\ UNCHANGED <<entry, lastErr, lastTo, cfs, lastValidation,
                   orchVars, domVars>>

\* generateConfigurationFiles: writeFile(".goreleaser.yaml") and what follows
\* it when no workflow is generated
GenerateManifest ==
    /\ cpc = "manifest"
    /\ lastFrom' = cfg.State
    /\ \E o \in writeFile(cfs, "manifest") :
        /\ cfs' = o.cfs
        /\ IF o.err # "nil"
           THEN /\ lastErr' = o.err
                /\ cfg' = [cfg EXCEPT !.State = StateOnWriteFailure(cfg.State)]
                /\ cpc' = "done"
           ELSE IF cfg.GenerateActions
           THEN /\ cpc' = "workflow"
                /\ UNCHANGED <<cfg, lastErr>>
           ELSE /\ cfg' = [cfg EXCEPT !.State = "generated"]
                /\ cpc' = "done"
                /\ lastErr' = "nil"
    /\ UNCHANGED <<entry, lastTo, genStart, lastValidation,
                   orchVars, domVars>>

\* generateConfigurationFiles: writeFile(".github/workflows/release.yml") and
\* the State it leaves
GenerateWorkflow ==
    /\ cpc = "workflow"
    /\ lastFrom' = cfg.State
    /\ \E o \in writeFile(cfs, "workflow") :
        /\ cfs' = o.cfs
        /\ lastErr' = o.err
        /\ cfg' = [cfg EXCEPT !.State = IF o.err # "nil"
                                         THEN StateOnWriteFailure(cfg.State)
                                         ELSE "generated"]
    /\ cpc' = "done"
    /\ UNCHANGED <<entry, lastTo, genStart, lastValidation,
                   orchVars, domVars>>

\* the orchestrator is not used
OrchIdle ==
    /\ jobs = <<>> /\ parallel = FALSE /\ maxJobs = DefaultMaxJobs
    /\ env = NoEnv /\ fs = EmptyDir /\ fs0 = EmptyDir
    /\ ctxDone = FALSE /\ wpc = "idle" /\ next = 1
    /\ jst = <<>> /\ jerr = <<>> /\ sem = 0
    /\ results = <<>> /\ errChan = <<>> /\ execErr = "none"
    /\ failed = <<>> /\ rbi = 0 /\ rbCalls = <<>> /\ rbRes = <<>>
    /\ rbErr = "none"
    /\ started = <<>> /\ ctxAtRb = FALSE /\ cancelled = FALSE

ModelPlatforms == {<<"linux">>, <<"windows">>, <<"linux", "darwin">>}
ModelArchitectures == {<<"amd64">>, <<"ppc64">>, <<"amd64", "arm">>}

\* a configuration as NewSafeProjectConfig and parseGenerateFlags /
\* createSafeConfig leave it, or a fresh one in the hands of a caller of the
\* domain package
InitConfig ==
    /\ OrchIdle
    /\ DomIdle
    /\ entry \in {"generate", "init", "api"}
    /\ \E nm \in {"web", "my-cli"}, ga \in BOOLEAN,
          pl \in ModelPlatforms, ar \in ModelArchitectures :
          cfg = [State |-> "draft", ProjectName |-> nm, GenerateActions |-> ga,
                 Platforms |-> pl, Architectures |-> ar]
    /\ cpc = IF entry = "api" THEN "api" ELSE "validate"
    /\ lastErr = "none"
    /\ lastFrom = "draft"
    /\ lastTo = "draft"
    /\ genStart = "none"
    /\ lastValidation = [State |-> "none", err |-> "none"]
    /\ \E m \in FileStates, w \in FileStates, fo \in BOOLEAN :
          /\ cfs = [manifest |-> m, workflow |-> w, force |-> fo,
                    backup |-> "none"]
          \* runInit leaves at checkExistingConfiguration before it builds
          \* the configuration
          /\ entry = "init" => (fo \/ (m = "none" /\ w = "none"))

NextConfig ==
    \/ \E ns \in ConfigStates : TransitionToState(ns)
    \/ CallValidateStateTransitionInvariant
    \/ ValidateBegin
    \/ ValidateEnd
    \/ checkExistingFiles
    \/ GenerateBegin
    \/ GenerateManifest
    \/ GenerateWorkflow

SpecConfig == InitConfig /\ [][NextConfig]_vars

\* ------------------------------------------------------------------------
\* Defaults, copies and equality of SafeProjectConfig
\* ------------------------------------------------------------------------
\* number of ApplyDefaults calls made on one configuration
MaxApplyCalls == 2

ProjectTypes == {"cli", "web", "library", "api", "desktop"}

\* projectTypeMetadata[pt].defaultCGOEnabled
DefaultCGOEnabled(pt) == pt \in {"web", "api", "desktop"}

\* projectTypeMetadata[pt].recommendedPlatforms
RecommendedPlatforms(pt) ==
    CASE pt \in {"cli", "library"} -> <<"linux", "darwin", "windows">>
      [] pt \in {"web", "api"} -> <<"linux", "darwin">>
      [] pt = "desktop" -> <<"windows", "darwin", "linux">>
      [] OTHER -> <<"linux", "darwin", "windows">>

\* projectTypeMetadata[pt].dockerSupported
DockerSupported(pt) == pt \in {"cli", "web", "api"}

GetRecommendedArchitectures == <<"amd64", "arm64">>

\* GetRecommendedGitProvider: the provider given to an unset hostingProvider
GetRecommendedGitProvider == "github"

\* gitProviderMetadata[gp].defaultRegistry
DefaultRegistry(gp) ==
    CASE gp = "github" -> "ghcr.io"
      [] gp = "gitlab" -> "registry.gitlab.com"
      [] OTHER -> "custom"

\* gitProviderMetadata[gp].actionsSupported
ActionsSupported(gp) == gp \in {"github", "gitlab", "bitbucket"}

\* DockerSupport.IsEnabled
IsEnabled(ds) == ds # "none"

\* actionTriggerMetadata[trigger].recommendedFor
RecommendedFor(trigger) ==
    CASE trigger = "version-tags" -> {"cli", "web", "api"}
      [] trigger = "all-tags" -> {"library"}
      [] trigger = "manual" -> {"cli", "web", "api", "desktop"}
      [] trigger = "main" -> {"web", "api"}
      [] trigger = "release" -> {"cli", "web", "api", "desktop"}
      [] OTHER -> {}

GetAllActionTriggers ==
    <<"version-tags", "all-tags", "manual", "main", "release">>

GetRecommendedTriggers(pt) ==
    SelectSeq(GetAllActionTriggers, LAMBDA t : pt \in RecommendedFor(t))

GetRecommendedSigningLevel(pt) ==
    CASE pt = "cli" -> "basic"
      [] pt \in {"web", "api"} -> "advanced"
      [] pt = "desktop" -> "enterprise"
      [] pt = "library" -> "none"
      [] OTHER -> "basic"

GetRecommendedFeatureLevel(pt) ==
    CASE pt \in {"api", "web"} -> "professional"
      [] pt = "desktop" -> "enterprise"
      [] OTHER -> "basic"

\* strings.ToLower on the project names of the model
ToLower(name) ==
    CASE name = "Web" -> "web"
      [] name = "My-CLI" -> "my-cli"
      [] OTHER -> name

\* ApplyDefaults: CGOStatus up to GitProvider
ApplyBuildDefaults(c) ==
    [c EXCEPT
       !.CGOStatus = IF c.CGOStatus = "disabled"
                        /\ DefaultCGOEnabled(c.ProjectType)
                     THEN "enabled" ELSE c.CGOStatus,
       !.Platforms = IF Len(c.Platforms) = 0
                     THEN RecommendedPlatforms(c.ProjectType)
                     ELSE c.Platforms,
       !.Architectures = IF Len(c.Architectures) = 0
                         THEN GetRecommendedArchitectures
                         ELSE c.Architectures,
       !.GitProvider = IF c.GitProvider = "" THEN GetRecommendedGitProvider
                       ELSE c.GitProvider]

\* ApplyDefaults: DockerSupport
ApplyDockerSupportDefault(c) ==
    IF c.DockerSupport = "none" /\ DockerSupported(c.ProjectType)
    THEN [c EXCEPT !.DockerSupport = "build"] ELSE c

\* ApplyDefaults: DockerRegistry
ApplyDockerRegistryDefault(c) ==
    IF c.DockerRegistry = "" /\ IsEnabled(c.DockerSupport)
    THEN [c EXCEPT !.DockerRegistry = DefaultRegistry(c.GitProvider)] ELSE c

\* defaults that add the recommended triggers on every call
ApplyActionDefaults_Appends(c) ==
    [c EXCEPT !.ActionLevel = IF c.ActionLevel = "none"
                                 /\ ActionsSupported(c.GitProvider)
                              THEN "basic" ELSE c.ActionLevel,
              !.ActionsOn = c.ActionsOn \o GetRecommendedTriggers(c.ProjectType)]

\* ApplyDefaults: ActionLevel and ActionsOn
ApplyActionDefaults(c) ==
    IF c.ActionLevel = "none" /\ ActionsSupported(c.GitProvider)
    THEN [c EXCEPT !.ActionLevel = "basic",
                   !.ActionsOn = IF Len(c.ActionsOn) = 0
                                 THEN GetRecommendedTriggers(c.ProjectType)
                                 ELSE c.ActionsOn]
    ELSE c

\* ApplyDefaults: FeatureLevel and SigningLevel
ApplyLevelDefaults(c) ==
    [c EXCEPT
       !.FeatureLevel = IF c.FeatureLevel = "basic"
                        THEN GetRecommendedFeatureLevel(c.ProjectType)
                        ELSE c.FeatureLevel,
       !.SigningLevel = IF c.SigningLevel = "none"
                        THEN GetRecommendedSigningLevel(c.ProjectType)
                        ELSE c.SigningLevel]

\* ApplyDefaults: BinaryName and DockerImage
ApplyNameDefaults(c) ==
    [c EXCEPT
       !.BinaryName = IF c.BinaryName = "" /\ c.ProjectName # ""
                      THEN c.ProjectName ELSE c.BinaryName,
       !.DockerImage = IF c.DockerImage = "" /\ c.ProjectName # ""
                          /\ IsEnabled(c.DockerSupport)
                       THEN ToLower(c.ProjectName) ELSE c.DockerImage]

\* SafeProjectConfig.ApplyDefaults
ApplyDefaults(c) ==
    ApplyNameDefaults(ApplyLevelDefaults(ApplyActionDefaults(
        ApplyDockerRegistryDefault(ApplyDockerSupportDefault(
            ApplyBuildDefaults(c))))))

\* SafeProjectConfig.Clone: the struct copied, its slices copied element by
\* element
Clone(c) ==
    [c EXCEPT !.Platforms = [k \in 1..Len(c.Platforms) |-> c.Platforms[k]],
              !.Architectures =
                  [k \in 1..Len(c.Architectures) |-> c.Architectures[k]],
              !.BuildTags = [k \in 1..Len(c.BuildTags) |-> c.BuildTags[k]],
              !.ActionsOn = [k \in 1..Len(c.ActionsOn) |-> c.ActionsOn[k]]]

\* SafeProjectConfig.Equals
Equals(a, b) ==
    /\ a.ProjectName = b.ProjectName
    /\ a.ProjectDescription = b.ProjectDescription
    /\ a.ProjectType = b.ProjectType
    /\ a.BinaryName = b.BinaryName
    /\ a.MainPath = b.MainPath
    /\ a.LDFlags = b.LDFlags
    /\ a.GitProvider = b.GitProvider
    /\ a.DockerRegistry = b.DockerRegistry
    /\ a.DockerImage = b.DockerImage
    /\ a.Homebrew = b.Homebrew
    /\ a.Snap = b.Snap
    /\ a.SBOM = b.SBOM
    /\ a.State = b.State

\* the configurations a caller builds: the lists given or left empty, the
\* levels left at None / Disabled / Basic or all raised
ModelConfigs ==
    { [ProjectName |-> nm, ProjectDescription |-> "", ProjectType |-> pt,
       BinaryName |-> "", MainPath |-> ".",
       Platforms |-> IF lists THEN <<"linux">> ELSE <<>>,
       Architectures |-> IF lists THEN <<"arm">> ELSE <<>>,
       CGOStatus |-> IF levels THEN "required" ELSE "disabled",
       BuildTags |-> <<>>, LDFlags |-> TRUE,
       GitProvider |-> gp,
       DockerSupport |-> IF levels THEN "publish" ELSE "none",
       DockerRegistry |-> "", DockerImage |-> "",
       SigningLevel |-> IF levels THEN "basic" ELSE "none",
       Homebrew |-> FALSE, Snap |-> FALSE, SBOM |-> FALSE,
       ActionLevel |-> IF levels THEN "advanced" ELSE "none",
       ActionsOn |-> <<>>,
       FeatureLevel |-> IF levels THEN "enterprise" ELSE "basic",
       State |-> "draft"] :
        nm \in {"", "Web"}, pt \in ProjectTypes, lists \in BOOLEAN,
        levels \in BOOLEAN, gp \in {"", "github", "gitea"} }

\* a caller calls spc.ApplyDefaults()
CallApplyDefaults ==
    /\ applied < MaxApplyCalls
    /\ spc' = ApplyDefaults(spc)
    /\ applied' = applied + 1
    /\ spcOnce' = IF applied = 0 THEN ApplyDefaults(spc) ELSE spcOnce
    /\ UNCHANGED <<spc0, other, lastEquals, valResult, orchVars, cfgVars>>

\* a caller takes other := spc.Clone()
CallClone ==
    /\ other' = Clone(spc)
    /\ UNCHANGED <<spc, spc0, applied, spcOnce, lastEquals, valResult, orchVars,
                   cfgVars>>

\* a caller assigns one field of a fresh copy
EditOther ==
    /\ other = spc
    /\ \/ other' = [other EXCEPT !.Platforms = <<"linux", "windows">>]
       \/ other' = [other EXCEPT !.SigningLevel = "enterprise"]
       \/ other' = [other EXCEPT !.ProjectName = "My-CLI"]
    /\ UNCHANGED <<spc, spc0, applied, spcOnce, lastEquals, valResult, orchVars,
                   cfgVars>>

\* a caller calls spc.Equals(other)
CallEquals ==
    /\ lastEquals' = [called |-> TRUE, a |-> spc, b |-> other,
                      res |-> Equals(spc, other)]
    /\ UNCHANGED <<spc, spc0, applied, spcOnce, other, valResult, orchVars,
                   cfgVars>>

\* projectTypeMetadata[pt].requiresMainPath
RequiresMainPath(pt) == pt \in {"cli", "web", "api", "desktop"}

\* the keys of gitProviderMetadata, GitProvider.IsValid
GitProviders == {"github", "gitlab", "bitbucket", "gitea", "self-hosted"}

\* the keys of dockerRegistryMetadata, DockerRegistry.IsValid
DockerRegistries ==
    {"docker.io", "ghcr.io", "registry.gitlab.com", "quay.io", "custom"}

ReservedNames ==
    {"con", "prn", "aux", "nul", "com1", "com2", "com3", "com4", "com5",
     "com6", "com7", "com8", "com9", "lpt1", "lpt2", "lpt3", "lpt4", "lpt5",
     "lpt6", "lpt7", "lpt8", "lpt9"}

\* domain.ValidateBinaryName; the names of the model are made of letters and
\* hyphens, so the length and the reserved names decide
ValidateBinaryName(name) ==
    IF Len(name) < 1 \/ Len(name) > 63
    THEN "binary name must be between 1 and 63 characters"
    ELSE IF ToLower(name) \in ReservedNames THEN "binary name is reserved"
    ELSE "nil"

\* domain.ValidateMainPath; the paths of the model are "" and "."
ValidateMainPath(path) ==
    IF Len(path) = 0 \/ Len(path) > 255
    THEN "main path must be between 1 and 255 characters" ELSE "nil"

\* domain.ValidateDockerRegistryURL; the image names of the model are bare
\* names, which only the custom registry (no pattern) accepts
ValidateDockerRegistryURL(registry, url) ==
    IF registry \notin DockerRegistries THEN "invalid Docker registry"
    ELSE IF url = "" THEN "Docker registry URL cannot be empty"
    ELSE IF registry # "custom"
    THEN "URL does not match expected pattern for registry"
    ELSE "nil"

NoError == [Code |-> "nil", Details |-> <<>>]
DomainError(code) == [Code |-> code, Details |-> <<>>]

\* ValidationUseCase.validateBasicFields: the first error or none
validateBasicFields(c) ==
    IF ValidateProjectName(c.ProjectName) # "nil"
    THEN DomainError("INVALID_PROJECT_NAME")
    ELSE IF ValidateBinaryName(c.BinaryName) # "nil"
    THEN DomainError("INVALID_BINARY_NAME")
    ELSE IF ValidateMainPath(c.MainPath) # "nil"
    THEN DomainError("INVALID_MAIN_PATH")
    ELSE NoError

\* ValidationUseCase.validateTypes: the first error or none
validateTypes(c) ==
    IF c.ProjectType \notin ProjectTypes
    THEN DomainError("INVALID_PROJECT_NAME")
    ELSE IF Len(c.Platforms) = 0 THEN DomainError("INVALID_PLATFORM")
    ELSE IF Len(c.Architectures) = 0 THEN DomainError("INVALID_ARCHITECTURE")
    ELSE IF c.GitProvider \notin GitProviders
    THEN DomainError("INVALID_GIT_PROVIDER")
    ELSE IF c.DockerRegistry \notin DockerRegistries
    THEN DomainError("INVALID_DOCKER_REGISTRY")
    ELSE IF Len(c.ActionsOn) = 0 THEN DomainError("INVALID_ACTION_TRIGGER")
    ELSE IF c.State \notin ConfigStates
    THEN DomainError("INVALID_CONFIG_STATE")
    ELSE NoError

\* ValidationUseCase.validatePlatformArchCompatibility: the error carries the
\* architecture and the platform of the message of ValidatePlatformArchCompatibility
validatePlatformArchCompatibility(c) ==
    LET r == ValidatePlatformArchCompatibility(c.Platforms, c.Architectures)
    IN IF r.err = "nil" THEN NoError
       ELSE IF r.err = "architecture not supported on platform"
       THEN [Code |-> "PLATFORM_ARCH_MISMATCH",
             Details |-> <<r.arch, r.platform>>]
       ELSE DomainError("PLATFORM_ARCH_MISMATCH")

\* ValidationUseCase.validateBusinessRules: the first error or none
validateBusinessRules(c) ==
    IF IsEnabled(c.DockerSupport) /\ ~DockerSupported(c.ProjectType)
    THEN DomainError("DOCKER_NOT_SUPPORTED")
    ELSE IF RequiresMainPath(c.ProjectType) /\ c.MainPath = ""
    THEN DomainError("MAIN_PATH_REQUIRED")
    ELSE IF ~AllowsGeneration(c.State) /\ c.ActionLevel # "none"
    THEN DomainError("INVALID_STATE_TRANSITION")
    ELSE IF IsEnabled(c.DockerSupport)
            /\ ValidateDockerRegistryURL(c.DockerRegistry, c.DockerImage) # "nil"
    THEN DomainError("INVALID_URL_PATTERN")
    ELSE NoError

\* ValidationUseCase.validateSecurity: no name, path or image of the model
\* holds "..", a backslash, a shell metacharacter or an injection sequence
validateSecurity(c) == NoError

\* ValidationUseCase.ValidateConfiguration: result.Errors, one per failing step
ValidateConfiguration(c) ==
    SelectSeq(<<validateBasicFields(c), validateTypes(c),
                validatePlatformArchCompatibility(c),
                validateBusinessRules(c), validateSecurity(c)>>,
              LAMBDA e : e.Code # "nil")

\* project "web" of type web for windows / ppc64, the other fields as the
\* caller left or set them
ScenarioConfigs ==
    { [ProjectName |-> "web", ProjectDescription |-> "", ProjectType |-> "web",
       BinaryName |-> bn, MainPath |-> mp,
       Platforms |-> <<"windows">>, Architectures |-> <<"ppc64">>,
       CGOStatus |-> "disabled", BuildTags |-> <<>>, LDFlags |-> TRUE,
       GitProvider |-> "github",
       DockerSupport |-> "none", DockerRegistry |-> dr, DockerImage |-> "",
       SigningLevel |-> "none",
       Homebrew |-> FALSE, Snap |-> FALSE, SBOM |-> FALSE,
       ActionLevel |-> al, ActionsOn |-> ao,
       FeatureLevel |-> "basic", State |-> "draft"] :
        bn \in {"", "web"}, mp \in {"", "."}, dr \in {"", "ghcr.io"},
        al \in {"none", "basic"}, ao \in {<<>>, <<"version-tags">>} }

\* a caller calls vu.ValidateConfiguration(ctx, spc)
CallValidateConfiguration ==
    /\ valResult' = [called |-> TRUE, config |-> spc,
                     IsValid |-> ValidateConfiguration(spc) = <<>>,
                     Errors |-> ValidateConfiguration(spc)]
    /\ UNCHANGED <<spc, spc0, applied, spcOnce, other, lastEquals, orchVars,
                   cfgVars>>

InitDomain ==
    /\ OrchIdle
    /\ CfgIdle
    /\ spc \in ModelConfigs \cup ScenarioConfigs
    /\ spc0 = spc
    /\ spcOnce = spc
    /\ other = spc
    /\ applied = 0
    /\ lastEquals = [called |-> FALSE, a |-> spc, b |-> spc, res |-> TRUE]
    /\ valResult = [called |-> FALSE, config |-> spc, IsValid |-> TRUE,
                    Errors |-> <<>>]

NextDomain ==
    \/ CallApplyDefaults
    \/ CallClone
    \/ EditOther
    \/ CallEquals
    \/ CallValidateConfiguration

SpecDomain == InitDomain /\ [][NextDomain]_vars

\* ------------------------------------------------------------------------
\* Properties
\* ------------------------------------------------------------------------
Reverse(s) == [k \in 1..Len(s) |-> s[Len(s) + 1 - k]]

RECURSIVE SelectIn(_, _)
\* the subsequence of s of the elements that are in S
SelectIn(s, S) ==
    IF s = <<>> THEN <<>>
    ELSE IF Head(s) \in S THEN <<Head(s)>> \o SelectIn(Tail(s), S)
         ELSE SelectIn(Tail(s), S)

Completed == SelectIdx(results, "completed", 1)
HasFailedResult == \E k \in 1..Len(results) : results[k].status = "failed"
Running == {i \in JobIds : jst[i] = "running"}

\* the lifecycle graph of the specification (section 4.3)
LifecycleEdges ==
    { <<"draft", "valid">>, <<"draft", "invalid">>,
      <<"valid", "invalid">>, <<"valid", "processing">>,
      <<"invalid", "valid">>, <<"invalid", "processing">>,
      <<"processing", "valid">>, <<"processing", "invalid">>,
      <<"processing", "generated">> }

\* C1: when Workflow.Execute has ended in failure, Rollback was invoked exactly
\* once on every job whose result is Completed, and these calls came in the
\* reverse of the order of completion.
C1_CompletedJobsRolledBack ==
    (wpc = "done" /\ execErr # "none")
        => SelectIn(rbCalls, Range(Completed)) = Reverse(Completed)

\* C2: with a valid configuration, force = false and the manifest present, the
\* full wizard plan (not cancelled) fails at the config-generation job and
\* leaves the working directory exactly as it was before the plan started.
C2_ExistingManifestKept ==
    ( /\ wpc = "done" /\ ~cancelled
      /\ Len(jobs) >= 3 /\ jobs[3] = "config-generation"
      /\ env.ProjectName # "" /\ env.projOK[1] /\ env.depsOK
      /\ ~env.force /\ fs0.manifest # "none" )
        => /\ execErr = "job"
           /\ failed = <<3>>
           /\ fs = fs0

\* C3: a TransitionToState whose (from, to) pair is not an edge of the
\* lifecycle graph returns the invalid-state-transition error and leaves the
\* whole configuration as it was.
C3_DisallowedTransitionRejected ==
    [][\A ns \in ConfigStates :
          (TransitionToState(ns) /\ <<cfg.State, ns>> \notin LifecycleEdges)
              => (cfg' = cfg /\ lastErr' = "invalid state transition")]_vars

C3_Witness ==
    /\ entry = "api"
    /\ lastErr = "invalid state transition"
    /\ lastFrom = "valid" /\ lastTo = "generated"
    /\ cfg.State = "valid"

\* C4: every change of State made by validateConfiguration and
\* generateConfigurationFiles goes along an edge of the lifecycle graph.
C4_StateChangesFollowEdges ==
    [][(entry \in {"generate", "init"} /\ cfg'.State # cfg.State)
          => <<cfg.State, cfg'.State>> \in LifecycleEdges]_vars

\* C5: in sequential mode the jobs are started in plan order, and once a job's
\* Execute has returned an error no further job is started.
C5_SequentialStopsAtFirstFailure ==
    [][(~parallel /\ started' # started)
          => /\ started' = Append(started, Len(started) + 1)
             /\ \A i \in JobIds : jerr[i] \in {"none", "nil"}]_vars

C5_Witness ==
    /\ ~parallel /\ wpc = "done"
    /\ Len(started) = 2 /\ Len(jobs) > 2
    /\ jerr[1] = "nil" /\ jerr[2] = "fail"

\* C6: in parallel mode, once a job has a Failed result the context is
\* cancelled and no job that has not started yet is admitted any more.
C6_NoAdmissionAfterFailure ==
    [][(parallel /\ HasFailedResult)
          => (ctxDone' /\ started' = started)]_vars

\* C7: in parallel mode the number of jobs whose Execute is in progress never
\* exceeds maxJobs (and no job runs when no semaphore could be made).
C7_AtMostMaxJobsRunning ==
    parallel => Cardinality(Running) <= (IF maxJobs < 0 THEN 0 ELSE maxJobs)

C7_Witness ==
    /\ parallel /\ maxJobs >= 1
    /\ Cardinality(Running) = maxJobs
    /\ \E i \in JobIds : jst[i] = "waiting"

\* C8: when the plan failed with its context already cancelled, Rollback has
\* been invoked on every failed job by the time Workflow.Execute returns.
C8_RollbackRunsWhenCancelled ==
    (wpc = "done" /\ execErr # "none" /\ ctxAtRb)
        => \A k \in 1..Len(failed) : failed[k] \in Range(rbCalls)

C11_ValidationAllowedStates ==
    lastValidation.State # "none"
        => ( lastValidation.err = "configuration cannot be validated"
               <=> lastValidation.State \notin {"draft", "valid", "invalid"} )

\* C12: a sweep that was not cut short by cancellation has invoked Rollback on
\* every failed job, in reverse order, whatever errors the Rollbacks returned.
C12_FailingRollbackDoesNotStopSweep ==
    (wpc = "done" /\ execErr # "none" /\ rbErr # "ctx")
        => rbCalls = Reverse(failed)

C12_Witness ==
    /\ wpc = "done" /\ rbErr = "none"
    /\ Len(rbCalls) >= 2
    /\ rbRes[1] = "fail"
    /\ rbCalls = Reverse(failed)

\* the jobs whose Rollback was invoked by the sweep and returned nil
RolledBack == {rbCalls[k] : k \in {n \in 1..Len(rbCalls) : rbRes[n] = "nil"}}

\* C13: when Workflow.Execute has returned, the result of every job that the
\* sweep rolled back has status RolledBack, and the statistics count no such
\* job as completed or failed.
C13_RolledBackStatusRecorded ==
    wpc = "done"
        => /\ \A k \in 1..Len(GetResults) :
                 GetResults[k].job \in RolledBack
                     => GetResults[k].status = "rolledback"
           /\ GetStatistics.completed + GetStatistics.failed
                 <= Len(GetResults) - Cardinality(RolledBack)

\* C14: a result whose error is the cancellation error of the plan's context
\* is not recorded with status Failed and is not in the slice of failed
\* results that the sweep works on.
C14_CancellationNotFailed ==
    /\ \A k \in 1..Len(results) :
          results[k].err = "ctx" => results[k].status # "failed"
    /\ \A k \in 1..Len(failed) : jerr[failed[k]] # "ctx"

C17_WriteFailureLeavesInvalid ==
    (cpc = "done" /\ lastErr = "write failed") => cfg.State = "invalid"

C17_Witness ==
    /\ cpc = "done" /\ lastErr = "write failed"
    /\ cfs.manifest = "gen" /\ cfs.workflow # "gen"
    /\ cfg.GenerateActions
    /\ cfg.State = "invalid"

\* the plan is the one of the full wizard workflow
IsFullWizardPlan == \E ga \in BOOLEAN : jobs = CreateFullWizardJobs(ga)

\* the kinds of the jobs of the plan that have a Completed result
CompletedKinds == {jobs[Completed[k]] : k \in 1..Len(Completed)}

\* C16: the full wizard plan starts its jobs one at a time in the order
\* project validation, dependency check, manifest, workflow, and a generated
\* manifest or workflow is in the directory only when project validation and
\* dependency check both have a Completed result.
C16_GenerationPlanOrder ==
    IsFullWizardPlan
        => /\ ~parallel
           /\ Cardinality(Running) <= 1
           /\ \A k \in 1..Len(started) :
                 jobs[started[k]] =
                     <<"project-validation", "dependency-check",
                       "config-generation", "github-actions-generation">>[k]
           /\ (fs.manifest = "gen" \/ fs.workflow = "gen")
                 => {"project-validation", "dependency-check"}
                        \subseteq CompletedKinds

C16_Witness ==
    /\ IsFullWizardPlan
    /\ wpc = "done" /\ execErr = "none"
    /\ started = <<1, 2, 3, 4>>
    /\ fs.manifest = "gen" /\ fs.workflow = "gen"

\* C18: in sequential mode a job's Execute is entered only when every job
\* started before it has its result, Completed or Failed, in the results list.
C18_SequentialStartsAfterRecord ==
    [][(~parallel /\ started' # started)
          => /\ Len(results) = Len(started)
             /\ \A k \in 1..Len(started) :
                   /\ results[k].job = started[k]
                   /\ results[k].status \in {"completed", "failed"}]_vars

C18_Witness ==
    /\ ~parallel
    /\ Len(started) = 2 /\ jst[2] = "running"
    /\ Len(results) = 1 /\ results[1].job = 1
    /\ results[1].status = "completed"

\* C19: in parallel mode every finished job has exactly one result and no
\* other job has one; and when the Execute of all jobs of the plan returned
\* nil and ExecuteJobs has returned, it returned no error and every job has
\* exactly one result, with status Completed.
C19_ResultsSerialised ==
    parallel
        => /\ \A i \in JobIds :
                 Cardinality({k \in 1..Len(results) : results[k].job = i})
                     = (IF jst[i] = "finished" THEN 1 ELSE 0)
           /\ ( /\ \A i \in JobIds : jerr[i] = "nil"
                /\ wpc \notin {"execute", "panic"} )
                 => /\ execErr = "none"
                    /\ Len(results) = Len(jobs)
                    /\ \A k \in 1..Len(results) :
                          results[k].status = "completed"

C19_Witness ==
    /\ parallel /\ maxJobs >= 2
    /\ wpc = "done" /\ execErr = "none"
    /\ Len(results) = NumJobs
    /\ results[1].job # 1
    /\ \A k \in 1..Len(results) : results[k].status = "completed"

\* C20: a plan that executeParallel has begun to execute has a concurrency
\* limit of at least 1.
C20_MaxJobsAtLeastOne ==
    (parallel /\ (next > 1 \/ wpc = "panic")) => maxJobs >= 1

\* C21: with the language toolchain on PATH, the full wizard plan goes on to
\* the manifest step whatever other tool of the dependency check is missing.
C21_OnlyToolchainHalts ==
    ( /\ IsFullWizardPlan /\ wpc = "done" /\ ~cancelled
      /\ env.projOK[1]
      /\ "go" \notin env.missing )
        => /\ 3 \in Range(started)
           /\ \E k \in 1..Len(results) :
                 results[k].job = 2 /\ results[k].status = "completed"

\* the workflow-generation jobs of the plan on which Rollback was invoked
RolledBackActionsJobs ==
    {i \in Range(rbCalls) : jobs[i] = "github-actions-generation"}

\* C22: when the workflow-generation job has been rolled back, the workflow
\* file and the directories .github and .github/workflows that were there
\* before the plan started are still there.
C22_RollbackKeepsWhatExisted ==
    (wpc = "done" /\ RolledBackActionsJobs # {})
        => /\ fs0.ghDir => fs.ghDir
           /\ fs0.wfDir => fs.wfDir
           /\ fs0.workflow # "none" => fs.workflow = fs0.workflow

\* C23: a second ApplyDefaults leaves the configuration, in every field, as
\* the first one left it.
C23_ApplyDefaultsIdempotent ==
    applied >= 2 => spc = spcOnce

C23_Witness ==
    /\ applied = 2
    /\ spcOnce # spc0
    /\ spc0.ActionLevel = "none" /\ spcOnce.ActionLevel = "basic"
    /\ spc = spcOnce

\* C24: Equals answers true exactly when the two configurations agree on
\* every field.
C24_EqualsIsStructural ==
    lastEquals.called => (lastEquals.res <=> lastEquals.a = lastEquals.b)

\* C29: ApplyDefaults leaves alone a container support None, a native
\* compilation Disabled, a signing level None, a CI-generation level None, a
\* feature tier Basic and a non-empty platform or architecture list.
C29_ApplyDefaultsKeepsChosenValues ==
    applied >= 1
        => /\ spc0.DockerSupport = "none" => spcOnce.DockerSupport = "none"
           /\ spc0.CGOStatus = "disabled" => spcOnce.CGOStatus = "disabled"
           /\ spc0.SigningLevel = "none" => spcOnce.SigningLevel = "none"
           /\ spc0.ActionLevel = "none" => spcOnce.ActionLevel = "none"
           /\ spc0.FeatureLevel = "basic" => spcOnce.FeatureLevel = "basic"
           /\ Len(spc0.Platforms) > 0 => spcOnce.Platforms = spc0.Platforms
           /\ Len(spc0.Architectures) > 0
                 => spcOnce.Architectures = spc0.Architectures


\* the configuration of project "web", type web, for windows and ppc64
IsMismatchScenario(c) ==
    /\ c.ProjectName = "web" /\ c.ProjectType = "web"
    /\ c.Platforms = <<"windows">> /\ c.Architectures = <<"ppc64">>

\* C25: validating the configuration of project "web" (type web) with
\* platforms {windows} and architectures {ppc64} fails with exactly one error,
\* PLATFORM_ARCH_MISMATCH, that names ppc64 and windows, and writes nothing
C25_MismatchIsTheOnlyError ==
    (valResult.called /\ IsMismatchScenario(valResult.config))
        => /\ ~valResult.IsValid
           /\ Len(valResult.Errors) = 1
           /\ valResult.Errors[1].Code = "PLATFORM_ARCH_MISMATCH"
           /\ valResult.Errors[1].Details = <<"ppc64", "windows">>
           /\ fs = fs0


\* every job of the plan ran and its Execute returned nil
AllJobsSucceeded ==
    \A i \in JobIds : jst[i] = "finished" /\ jerr[i] = "nil"

RECURSIVE SequentialResult(_, _)
\* the directory after the jobs i.. of the plan succeeded one after the other
SequentialResult(i, f) ==
    IF i > Len(jobs) THEN f
    ELSE LET ok == {o \in Execute(i, FALSE, f) : o.err = "nil"}
         IN IF ok = {} THEN f
            ELSE SequentialResult(i + 1, (CHOOSE o \in ok : TRUE).fs)

ExecuteJobsReturned == wpc \in {"rollback", "sweep", "rollingback", "done"}

\* C27: once ExecuteJobs has returned, with nil, a job's error or the
\* context's, no goroutine still waits for the semaphore, runs Execute or has
\* a result to append; so no Rollback runs next to an Execute
C27_NothingRunsAfterReturn ==
    ExecuteJobsReturned
        => \A i \in JobIds : jst[i] \notin {"waiting", "running", "returned"}


IsMigrationPlan == jobs = createMigrationJobs

\* C28: when the migration workflow fails after its backup job completed, the
\* manifest that was there is back at .goreleaser.yaml with its content once
\* Workflow.Execute has returned
C28_MigrationFailureRestoresManifest ==
    ( /\ IsMigrationPlan /\ wpc = "done" /\ execErr = "job" /\ ~cancelled
      /\ fs0.manifest # "none"
      /\ \E k \in 1..Len(results) :
            results[k].job = 1 /\ results[k].status = "completed" )
        => fs.manifest = fs0.manifest


\* every job of the plan was started once
EachJobExecutedOnce ==
    /\ Len(started) = Len(jobs)
    /\ \A i \in JobIds : \E k \in 1..Len(started) : started[k] = i

\* C30: in parallel mode, whatever maxJobs was set, ExecuteJobs returns after
\* every job was executed exactly once, unless the context is cancelled
C30_ParallelTerminates ==
    parallel => <>(cancelled \/ (ExecuteJobsReturned /\ EachJobExecutedOnce))

====
